---- MODULE Spec2Model ----
(***************************************************************************)
(* Model of src/main.py: the PEA simulation engine simulate_pea and the    *)
(* three-scenario comparator calcul_scenarios.                             *)
(*                                                                         *)
(* Python floats are IEEE-754 doubles and are modelled as such: every      *)
(* arithmetic operation below computes the exact result and rounds it to   *)
(* 53 bits, ties to even.  Mantissas are kept as naturals of any size.     *)
(* Overflow, subnormals, NaN and the sign of zero are not modelled; no     *)
(* modelled run comes near them, apart from -0.0, which compares equal to  *)
(* 0.0 and is kept as 0.0.                                                 *)
(***************************************************************************)
EXTENDS Integers, Sequences, FiniteSets, TLC

VARIABLES
    args,            \* parameters of the simulate_pea call
    nb_mois,         \* int(duree_annees * 12)
    r_m,             \* effective monthly rate
    frais_mensuel,   \* monthly fee fraction
    capital,
    net_investi,
    mois_plafond,    \* None (<<>>) or <<month>>
    leftover,
    historique,
    mois,            \* loop variable of the monthly loop
    pc,              \* position in simulate_pea
    ret,             \* interets_bruts, impots and the SimulationResult
    investi_hist,    \* history variable: net_investi after every step
    cmp_args,        \* parameters of the calcul_scenarios call
    cmp_pc,          \* position in calcul_scenarios
    scenarios_data,
    rapport,
    appels           \* history variable: number of simulate_pea calls made

simVars == <<args, nb_mois, r_m, frais_mensuel, capital, net_investi,
             mois_plafond, leftover, historique, mois, pc, ret, investi_hist>>
cmpVars == <<cmp_args, cmp_pc, scenarios_data, rapport, appels>>
vars == <<simVars, cmpVars>>

----------------------------------------------------------------------------
(* Bounds of the model *)

\* durations range over -1/8 .. MaxDuree/8 years
MaxDuree == 3
\* the amounts of money range up to MaxMoney units
MaxMoney == 2
\* rate lists given to calcul_scenarios hold 2 .. MaxRates rates
MaxRates == 4

----------------------------------------------------------------------------
(* Natural numbers of any size: little-endian sequences of limbs in base 2^15, *)
(* without leading zero limbs; <<>> is zero.                                   *)

Base == 2^15

RECURSIVE BTrim(_)
BTrim(b) ==
    IF b = <<>> THEN <<>>
    ELSE IF b[Len(b)] = 0 THEN BTrim(SubSeq(b, 1, Len(b) - 1))
    ELSE b

RECURSIVE BFromInt(_)
BFromInt(k) ==
    IF k = 0 THEN <<>> ELSE <<k % Base>> \o BFromInt(k \div Base)

RECURSIVE BToInt(_)
BToInt(b) == IF b = <<>> THEN 0 ELSE b[1] + Base * BToInt(Tail(b))

Limb(b) == IF b = <<>> THEN 0 ELSE b[1]
Rest(b) == IF b = <<>> THEN <<>> ELSE Tail(b)

RECURSIVE BAddC(_, _, _)
BAddC(a, b, c) ==
    IF a = <<>> /\ b = <<>> THEN (IF c = 0 THEN <<>> ELSE <<c>>)
    ELSE LET x == Limb(a) + Limb(b) + c
         IN  <<x % Base>> \o BAddC(Rest(a), Rest(b), x \div Base)

BAdd(a, b) == BAddC(a, b, 0)

\* a - b - c for a >= b + c, before trimming
RECURSIVE BSubC(_, _, _)
BSubC(a, b, c) ==
    IF a = <<>> THEN <<>>
    ELSE LET x == a[1] - Limb(b) - c
         IN  <<x % Base>> \o BSubC(Tail(a), Rest(b), IF x < 0 THEN 1 ELSE 0)

BSub(a, b) == BTrim(BSubC(a, b, 0))

\* -1, 0 or 1 as a < b, a = b or a > b
RECURSIVE BCmp(_, _)
BCmp(a, b) ==
    IF Len(a) # Len(b) THEN (IF Len(a) < Len(b) THEN -1 ELSE 1)
    ELSE IF a = <<>> THEN 0
    ELSE IF a[Len(a)] # b[Len(b)] THEN (IF a[Len(a)] < b[Len(b)] THEN -1 ELSE 1)
    ELSE BCmp(SubSeq(a, 1, Len(a) - 1), SubSeq(b, 1, Len(b) - 1))

\* a * k + c for 0 <= k < Base
RECURSIVE BMulC(_, _, _)
BMulC(a, k, c) ==
    IF a = <<>> THEN (IF c = 0 THEN <<>> ELSE <<c>>)
    ELSE LET x == a[1] * k + c
         IN  <<x % Base>> \o BMulC(Tail(a), k, x \div Base)

BMulSmall(a, k) == IF k = 0 THEN <<>> ELSE BMulC(a, k, 0)

RECURSIVE BMul(_, _)
BMul(a, b) ==
    LET De(hi) ==
            BAdd(BMulSmall(a, b[1]), IF hi = <<>> THEN <<>> ELSE <<0>> \o hi)
    IN  IF a = <<>> \/ b = <<>> THEN <<>> ELSE De(BMul(a, Tail(b)))

\* quotient (untrimmed) and remainder of a by k, 0 < k < Base
RECURSIVE BDivC(_, _)
BDivC(a, k) ==
    LET Chiffre(hi, cur) == [q |-> <<cur \div k>> \o hi.q, r |-> cur % k]
        De(hi) == Chiffre(hi, hi.r * Base + a[1])
    IN  IF a = <<>> THEN [q |-> <<>>, r |-> 0] ELSE De(BDivC(Tail(a), k))

BDivSmall(a, k) ==
    LET De(d) == [q |-> BTrim(d.q), r |-> d.r]
    IN  De(BDivC(a, k))

RECURSIVE BitLenInt(_)
BitLenInt(k) == IF k = 0 THEN 0 ELSE 1 + BitLenInt(k \div 2)

BBitLen(b) == IF b = <<>> THEN 0 ELSE 15 * (Len(b) - 1) + BitLenInt(b[Len(b)])

Zeros(w) == [i \in 1..w |-> 0]

\* b * 2^k
BShl(b, k) ==
    IF b = <<>> THEN <<>>
    ELSE Zeros(k \div 15) \o BMulSmall(b, 2^(k % 15))

\* floor(b / 2^k)
BShr(b, k) ==
    IF k \div 15 >= Len(b) THEN <<>>
    ELSE BDivSmall(SubSeq(b, (k \div 15) + 1, Len(b)), 2^(k % 15)).q

BOdd(b) == b # <<>> /\ b[1] % 2 = 1

RECURSIVE TrailingZerosInt(_)
TrailingZerosInt(k) == IF k % 2 = 1 THEN 0 ELSE 1 + TrailingZerosInt(k \div 2)

\* number of trailing zero bits of b # 0
RECURSIVE BTrailingZeros(_)
BTrailingZeros(b) ==
    IF b[1] = 0 THEN 15 + BTrailingZeros(Tail(b)) ELSE TrailingZerosInt(b[1])

(* IEEE-754 doubles: [s, m, e] is s * m * 2^e with s in {-1, 0, 1}, m an odd  *)
(* natural of at most 53 bits; zero is [0, <<>>, 0].                           *)

Mantisse == 53

Zero == [s |-> 0, m |-> <<>>, e |-> 0]

Canon(s, m, e) ==
    LET De(tz) == [s |-> s, m |-> BShr(m, tz), e |-> e + tz]
    IN  IF m = <<>> \/ s = 0 THEN Zero ELSE De(BTrailingZeros(m))

\* s * m * 2^e rounded to the nearest double, ties to even
Round(s, m, e) ==
    LET Vers(q, c, k) ==
            Canon(s, IF c > 0 \/ (c = 0 /\ BOdd(q)) THEN BAdd(q, <<1>>) ELSE q,
                  e + k)
        Coupe(q, k) ==
            Vers(q, BCmp(BSub(m, BShl(q, k)), BShl(<<1>>, k - 1)), k)
        De(k) == IF k <= 0 THEN Canon(s, m, e) ELSE Coupe(BShr(m, k), k)
    IN  De(BBitLen(m) - Mantisse)

Abs(i) == IF i < 0 THEN 0 - i ELSE i
SgnInt(i) == IF i < 0 THEN -1 ELSE IF i = 0 THEN 0 ELSE 1

FromInt(k) == Canon(SgnInt(k), BFromInt(Abs(k)), 0)
One == FromInt(1)

\* position of the leading bit: 2^(Top - 1) <= |a| < 2^Top
Top(a) == BBitLen(a.m) + a.e

MinOf(i, j) == IF i <= j THEN i ELSE j

\* the exact sum of two doubles, as s * m * 2^e not yet rounded
SommeExacte(a, b) ==
    LET Selon(ma, mb, c, e) ==
            IF a.s = b.s THEN [s |-> a.s, m |-> BAdd(ma, mb), e |-> e]
            ELSE IF c = 0 THEN Zero
            ELSE IF c > 0 THEN [s |-> a.s, m |-> BSub(ma, mb), e |-> e]
            ELSE [s |-> b.s, m |-> BSub(mb, ma), e |-> e]
        Aligne(ma, mb, e) == Selon(ma, mb, BCmp(ma, mb), e)
        De(e) == Aligne(BShl(a.m, a.e - e), BShl(b.m, b.e - e), e)
    IN  De(MinOf(a.e, b.e))

\* a + b; an operand below 2^-64 of the other cannot change the rounded sum
DAdd(a, b) ==
    LET Arrondi(x) == Round(x.s, x.m, x.e)
        De(d) == IF d > 64 THEN a
                 ELSE IF d < -64 THEN b
                 ELSE Arrondi(SommeExacte(a, b))
    IN  IF a.s = 0 THEN b
        ELSE IF b.s = 0 THEN a
        ELSE De(Top(a) - Top(b))

DNeg(a) == [s |-> 0 - a.s, m |-> a.m, e |-> a.e]

DSub(a, b) == DAdd(a, DNeg(b))

DMul(a, b) == Round(a.s * b.s, BMul(a.m, b.m), a.e + b.e)

\* a / k for an integer 0 < k < 2^15, correctly rounded: the quotient is
\* computed to more than 56 bits, with one more bit set when it is inexact
DDiv(a, k) ==
    LET De(d) ==
            Round(a.s,
                  BAdd(BMulSmall(d.q, 2), IF d.r # 0 THEN <<1>> ELSE <<>>),
                  a.e - 76)
    IN  IF a.s = 0 THEN Zero ELSE De(BDivSmall(BShl(a.m, 75), k))

\* -1, 0 or 1 as a < b, a = b or a > b
DCmp(a, b) ==
    LET Aligne(e) == a.s * BCmp(BShl(a.m, a.e - e), BShl(b.m, b.e - e))
        De(ta, tb) ==
            IF ta # tb THEN (IF ta < tb THEN 0 - a.s ELSE a.s)
            ELSE Aligne(MinOf(a.e, b.e))
    IN  IF a.s # b.s THEN (IF a.s < b.s THEN -1 ELSE 1)
        ELSE IF a.s = 0 THEN 0
        ELSE De(Top(a), Top(b))

DLe(a, b) == DCmp(a, b) <= 0
DLt(a, b) == DCmp(a, b) < 0

\* int(a): truncation toward zero
Trunc(a) ==
    a.s * BToInt(IF a.e >= 0 THEN BShl(a.m, a.e) ELSE BShr(a.m, 0 - a.e))

\* Python min(a, b): b only when b < a
DMin(a, b) == IF DLt(b, a) THEN b ELSE a
\* Python max(a, b): b only when b > a
DMax(a, b) == IF DLt(a, b) THEN b ELSE a

\* floor(a)
Floor(a) ==
    IF a.e >= 0 THEN Trunc(a)
    ELSE IF a.s > 0 THEN Trunc(a) ELSE Trunc(a) - 1

\* floor(.. floor(floor(m / ks[1]) / ks[2]) ..) and whether it is inexact
RECURSIVE DivChain(_, _)
DivChain(m, ks) ==
    LET Puis(d, rest) == [q |-> rest.q, inexact |-> rest.inexact \/ d.r # 0]
        De(d) == Puis(d, DivChain(d.q, Tail(ks)))
    IN  IF ks = <<>> THEN [q |-> m, inexact |-> FALSE]
        ELSE De(BDivSmall(m, Head(ks)))

\* the double a decimal literal denotes: n divided by the product of ks
\* (each below 2^15), correctly rounded
Dec(n, ks) ==
    LET Vers(d, t) ==
            Round(SgnInt(n),
                  BAdd(BMulSmall(d.q, 2), IF d.inexact THEN <<1>> ELSE <<>>),
                  0 - (t + 1))
        De(t) == Vers(DivChain(BShl(BFromInt(Abs(n)), t), ks), t)
    IN  De(60 + 15 * Len(ks))

\* the literal 1e-9
Eps == Dec(1, <<1000, 1000, 1000>>)

\* a <= 1e-9
LeEps(a) == DLe(a, Eps)

\* a <= b + 1e-9, decided on the exact difference a - b
LeWithinEps(a, b) == DCmp(SommeExacte(a, DNeg(b)), Eps) <= 0

None == <<>>
Some(m) == <<m>>

----------------------------------------------------------------------------
(* simulate_pea *)

\* faulty variant: a started month counts as a whole one
NbMoisArrondi(a) == 0 - Floor(DNeg(DMul(a.duree_annees, FromInt(12))))

NbMois(a) == Trunc(DMul(a.duree_annees, FromInt(12)))

\* r_m = ((taux_annuel_percent - inflation_percent) / 100) / 12
TauxMensuel(a) ==
    DDiv(DDiv(DSub(a.taux_annuel_percent, a.inflation_percent), 100), 12)

\* frais_mensuel = (frais_annuels_percent / 100) / 12
FraisMensuel(a) == DDiv(DDiv(a.frais_annuels_percent, 100), 12)

\* the locals as initialised before the initial deposit
Locals0(a) ==
    [capital |-> Zero, net_investi |-> Zero, mois_plafond |-> None,
     leftover |-> a.plafond_pea, historique |-> <<>>]

\* the initial deposit is attempted only when some cap is left
DepotGuard(l) == l.leftover.s > 0

\* faulty variant: the initial deposit is not taken off what is left under the cap
DepotInitialSansDecompte(l, a) ==
    LET Etat(c, n, lo, mp) ==
            [capital |-> c, net_investi |-> n, mois_plafond |-> mp,
             leftover |-> lo, historique |-> Append(l.historique, c)]
        Depose(deposit_init) ==
            Etat(DAdd(l.capital, deposit_init),
                 DAdd(l.net_investi, deposit_init), l.leftover,
                 IF LeEps(l.leftover) THEN Some(0) ELSE l.mois_plafond)
    IN  IF DepotGuard(l) THEN Depose(DMin(a.capital_initial, l.leftover))
        ELSE Etat(l.capital, l.net_investi, l.leftover, l.mois_plafond)

\* the initial deposit, partial when the cap requires it, and historique[0]
DepotInitial(l, a) ==
    LET Etat(c, n, lo, mp) ==
            [capital |-> c, net_investi |-> n, mois_plafond |-> mp,
             leftover |-> lo, historique |-> Append(l.historique, c)]
        Reste(c, n, lo) ==
            Etat(c, n, lo, IF LeEps(lo) THEN Some(0) ELSE l.mois_plafond)
        Depose(deposit_init) ==
            Reste(DAdd(l.capital, deposit_init),
                  DAdd(l.net_investi, deposit_init),
                  DSub(l.leftover, deposit_init))
    IN  IF DepotGuard(l) THEN Depose(DMin(a.capital_initial, l.leftover))
        ELSE Etat(l.capital, l.net_investi, l.leftover, l.mois_plafond)

\* 1) monthly growth, 2) monthly fee when the fee fraction is positive
Capitalise(c, rm, fm) ==
    LET Frais(grown) ==
            IF fm.s > 0 THEN DMul(grown, DSub(One, fm)) ELSE grown
    IN  Frais(DMul(c, DAdd(One, rm)))

\* faulty variant: the cap counts as reached only at exactly zero
VersementGuardSansTolerance(l) == l.leftover.s > 0

\* a monthly contribution is made only while the cap is not reached
VersementGuard(l) == ~LeEps(l.leftover)

\* faulty variant: the contribution is made before the month's growth and fee
MoisStepDepotDabord(l, a, m) ==
    LET Etat(c, n, lo, mp) ==
            [capital |-> c, net_investi |-> n, mois_plafond |-> mp,
             leftover |-> lo, historique |-> Append(l.historique, c)]
        Reste(c, n, lo) ==
            Etat(c, n, lo, IF LeEps(lo) /\ l.mois_plafond = None
                           THEN Some(m) ELSE l.mois_plafond)
        Depose(deposit) ==
            Reste(Capitalise(DAdd(l.capital, deposit), TauxMensuel(a),
                             FraisMensuel(a)),
                  DAdd(l.net_investi, deposit), DSub(l.leftover, deposit))
    IN  IF VersementGuard(l)
        THEN Depose(DMin(a.versement_mensuel, l.leftover))
        ELSE Etat(Capitalise(l.capital, TauxMensuel(a), FraisMensuel(a)),
                  l.net_investi, l.leftover, l.mois_plafond)

\* one iteration of the monthly loop, for month index m
MoisStep(l, a, m) ==
    LET Etat(c, n, lo, mp) ==
            [capital |-> c, net_investi |-> n, mois_plafond |-> mp,
             leftover |-> lo, historique |-> Append(l.historique, c)]
        Reste(c, n, lo) ==
            Etat(c, n, lo, IF LeEps(lo) /\ l.mois_plafond = None
                           THEN Some(m) ELSE l.mois_plafond)
        Depose(grown, deposit) ==
            Reste(DAdd(grown, deposit), DAdd(l.net_investi, deposit),
                  DSub(l.leftover, deposit))
        Verse(grown) ==
            IF VersementGuard(l)
            THEN Depose(grown, DMin(a.versement_mensuel, l.leftover))
            ELSE Etat(grown, l.net_investi, l.leftover, l.mois_plafond)
    IN  Verse(Capitalise(l.capital, TauxMensuel(a), FraisMensuel(a)))

\* faulty variant: the gains are not floored at zero
InteretsBrutsSansPlancher(c, n) == DSub(c, n)

\* interets_bruts = max(capital - net_investi, 0.0)
InteretsBruts(c, n) == DMax(DSub(c, n), Zero)

\* impots = (taux_impot_percent / 100.0) * interets_bruts
Impots(tx, ib) == DMul(DDiv(tx, 100), ib)

\* faulty variant: the tax is levied on the whole capital instead of the gains
RetourSurCapital(l, a) ==
    LET Resultat(ib, im) ==
            [interets_bruts |-> ib, impots |-> im,
             result |-> [capital_final_brut |-> DSub(l.capital, im),
                         net_investi |-> l.net_investi,
                         mois_plafond |-> l.mois_plafond,
                         historique |-> l.historique]]
        Taxe(ib) == Resultat(ib, Impots(a.taux_impot_percent, l.capital))
    IN  Taxe(InteretsBruts(l.capital, l.net_investi))

\* the tax on gains and the returned SimulationResult
Retour(l, a) ==
    LET Resultat(ib, im) ==
            [interets_bruts |-> ib, impots |-> im,
             result |-> [capital_final_brut |-> DSub(l.capital, im),
                         net_investi |-> l.net_investi,
                         mois_plafond |-> l.mois_plafond,
                         historique |-> l.historique]]
        Taxe(ib) == Resultat(ib, Impots(a.taux_impot_percent, ib))
    IN  Taxe(InteretsBruts(l.capital, l.net_investi))

\* for mois in range(1, nb_mois + 1)
RECURSIVE Boucle(_, _, _)
Boucle(l, a, m) ==
    IF m > NbMois(a) THEN l ELSE Boucle(MoisStep(l, a, m), a, m + 1)

\* a whole call, as calcul_scenarios makes it
simulate_pea(a) == Retour(Boucle(DepotInitial(Locals0(a), a), a, 1), a).result

----------------------------------------------------------------------------
(* Inputs *)

\* durations in eighths of a year
Durees == {Dec(q, <<8>>) : q \in -1..MaxDuree}

\* annual percentages
Taux == {FromInt(-6), FromInt(6)}
Inflations == {Zero, FromInt(2)}
Frais == {FromInt(-1), FromInt(1)}
TauxImpot == {Dec(-172, <<10>>), Zero, Dec(172, <<10>>)}

\* 2^-30, an amount below the tolerance 1e-9
Infime == [s |-> 1, m |-> <<1>>, e |-> -30]

Multiples(u, min) == {DMul(FromInt(k), u) : k \in min..MaxMoney}
Dixiemes == {Dec(k, <<10>>) : k \in 0..MaxMoney}

\* the three amounts of a call: whole numbers, or multiples of 2^-30, or a
\* whole cap with an initial capital and a contribution in tenths, or three
\* large amounts given to the cent
Montants ==
    UNION {[plafond_pea : Multiples(u, -1), capital_initial : Multiples(u, 0),
            versement_mensuel : Multiples(u, -1)] : u \in {One, Infime}}
    \cup [plafond_pea : {FromInt(k) : k \in 1..MaxMoney},
          capital_initial : Dixiemes, versement_mensuel : Dixiemes]
    \cup {[plafond_pea |-> FromInt(30000000),
           capital_initial |-> Dec(64820706, <<100>>),
           versement_mensuel |-> Dec(1037334329, <<100>>)]}

Args ==
    {[duree_annees |-> d, taux_annuel_percent |-> t,
      capital_initial |-> mo.capital_initial,
      versement_mensuel |-> mo.versement_mensuel,
      plafond_pea |-> mo.plafond_pea, frais_annuels_percent |-> f,
      taux_impot_percent |-> ti, inflation_percent |-> i] :
        d \in Durees, t \in Taux, mo \in Montants, f \in Frais,
        ti \in TauxImpot, i \in Inflations}

----------------------------------------------------------------------------
(* calcul_scenarios *)

\* round(|a| * 100) to the nearest integer, ties to even
Cents(a) ==
    LET Vers(q, c) ==
            BToInt(IF c > 0 \/ (c = 0 /\ BOdd(q)) THEN BAdd(q, <<1>>) ELSE q)
        Coupe(m, q, k) ==
            Vers(q, BCmp(BSub(m, BShl(q, k)), BShl(<<1>>, k - 1)))
        De(m, k) == IF k <= 0 THEN BToInt(BShl(m, 0 - k))
                    ELSE Coupe(m, BShr(m, k), k)
    IN  De(BMulSmall(a.m, 100), 0 - a.e)

\* f"{x:,.2f}": the sign and the number of cents the string shows
Fmt2(a) == [signe |-> IF a.s < 0 THEN "-" ELSE "", cents |-> Cents(a)]

\* f"{taux}%"
TauxStr(taux) == ToString(taux) \o "%"

format_duree_mois(nb) ==
    LET annees == nb \div 12
        m == nb % 12
        suite == IF m # 0 THEN " et " \o ToString(m) \o " mois" ELSE ""
    IN  IF annees = 0 THEN ToString(m) \o " mois"
        ELSE IF annees = 1 THEN "1 an" \o suite
        ELSE ToString(annees) \o " ans" \o suite

\* faulty variant: the rates are taken from the end of the list
ProchainTauxInverse(r, k) == r[Len(r) + 1 - k]

\* for taux in rates: the rate of the k-th iteration
ProchainTaux(r, k) == r[k]

\* the simulate_pea call calcul_scenarios makes for one rate
SimArgs(c, taux) ==
    [duree_annees |-> c.duree_annees, taux_annuel_percent |-> FromInt(taux),
     capital_initial |-> c.capital_initial,
     versement_mensuel |-> c.versement_mensuel,
     plafond_pea |-> c.plafond_pea, frais_annuels_percent |-> c.frais,
     taux_impot_percent |-> c.taux_impot, inflation_percent |-> c.inflation]

Last(h) == h[Len(h)]

\* the record appended to scenarios_data for one rate
Scenario(c, taux) ==
    LET Ligne(sim, interets_bruts) ==
            [taux_str |-> TauxStr(taux),
             plafond_atteint |-> IF sim.mois_plafond # None
                                 THEN format_duree_mois(sim.mois_plafond[1])
                                 ELSE "non atteint",
             capital_final_brut |-> Fmt2(Last(sim.historique)),
             interets_bruts |-> Fmt2(interets_bruts),
             impots |-> Fmt2(Impots(c.taux_impot, interets_bruts)),
             capital_final_net |-> Fmt2(sim.capital_final_brut),
             historique |-> sim.historique]
        De(sim) ==
            Ligne(sim, InteretsBruts(Last(sim.historique), sim.net_investi))
    IN  De(simulate_pea(SimArgs(c, taux)))

ErreurTaux == "ERREUR : Veuillez renseigner exactement 3 taux."

\* the one-line text returned for a rate list that does not hold 3 rates
RapportErreur ==
    [titre |-> ErreurTaux, parametres |-> <<>>, entete |-> <<>>,
     lignes |-> <<>>]

Metrics ==
    <<"plafond_atteint", "capital_final_brut", "interets_bruts", "impots",
      "capital_final_net">>

\* the report: its first line, the parameter lines, one header cell and one
\* cell per metric for every scenario, in the order of scenarios_data
Titre == "=== COMPARATIF PEA (SIMULATION AVEC OPTIONS) : AFFICHAGE COLONNES ==="

Rapport(c, data) ==
    [titre |-> Titre,
     parametres |->
        <<c.duree_annees, Fmt2(c.plafond_pea), Fmt2(c.capital_initial),
          Fmt2(c.versement_mensuel)>>
        \o (IF c.frais.s # 0 THEN <<<<"frais", c.frais>>>> ELSE <<>>)
        \o (IF c.inflation.s # 0 THEN <<<<"inflation", c.inflation>>>>
                                  ELSE <<>>),
     entete |-> [i \in 1..Len(data) |-> data[i].taux_str],
     lignes |-> [k \in 1..Len(Metrics) |->
                    [i \in 1..Len(data) |-> data[i][Metrics[k]]]]]

RECURSIVE Listes(_, _)
Listes(S, n) ==
    IF n = 0 THEN {<<>>}
    ELSE {Append(l, x) : l \in Listes(S, n - 1), x \in S}

\* the rates of a comparison are given as whole percentages
RatesLists == UNION {Listes({-6, 0, 6}, n) : n \in 2..MaxRates}

CmpArgs ==
    [duree_annees : {Zero, Dec(MaxDuree, <<8>>)},
     capital_initial : {FromInt(1000 * k) : k \in 0..1},
     versement_mensuel : {FromInt(1000 * k) : k \in 0..1},
     plafond_pea : {FromInt(1000 * k) : k \in 1..MaxMoney},
     rates : RatesLists,
     frais : {Zero, FromInt(1)},
     inflation : {Zero},
     taux_impot : {Zero, Dec(172, <<10>>)}]

----------------------------------------------------------------------------
(* The state machine of one simulate_pea call *)

Locals ==
    [capital |-> capital, net_investi |-> net_investi,
     mois_plafond |-> mois_plafond, leftover |-> leftover,
     historique |-> historique]

SetLocals(l) ==
    /\ capital' = l.capital
    /\ net_investi' = l.net_investi
    /\ mois_plafond' = l.mois_plafond
    /\ leftover' = l.leftover
    /\ historique' = l.historique
    /\ investi_hist' = Append(investi_hist, l.net_investi)

NoRet == [interets_bruts |-> Zero, impots |-> Zero, result |-> <<>>]

CmpIdle ==
    /\ cmp_args = <<>>
    /\ cmp_pc = "idle"
    /\ scenarios_data = <<>>
    /\ rapport = <<>>
    /\ appels = 0

\* lines 32-42: the derived rates and the initialised locals
SimInit ==
    /\ args \in Args
    /\ nb_mois = NbMois(args)
    /\ r_m = TauxMensuel(args)
    /\ frais_mensuel = FraisMensuel(args)
    /\ capital = Locals0(args).capital
    /\ net_investi = Locals0(args).net_investi
    /\ mois_plafond = Locals0(args).mois_plafond
    /\ leftover = Locals0(args).leftover
    /\ historique = Locals0(args).historique
    /\ investi_hist = <<>>
    /\ mois = 0
    /\ pc = "depot"
    /\ ret = NoRet

\* no simulate_pea call of its own is being followed
SimIdle ==
    /\ args = <<>>
    /\ nb_mois = 0
    /\ r_m = Zero
    /\ frais_mensuel = Zero
    /\ capital = Zero
    /\ net_investi = Zero
    /\ mois_plafond = None
    /\ leftover = Zero
    /\ historique = <<>>
    /\ investi_hist = <<>>
    /\ mois = 0
    /\ pc = "idle"
    /\ ret = NoRet

CmpInit ==
    /\ cmp_args \in CmpArgs
    /\ cmp_pc = "arite"
    /\ scenarios_data = <<>>
    /\ rapport = <<>>
    /\ appels = 0

\* a behaviour follows one simulate_pea call or one calcul_scenarios call
Init == (SimInit /\ CmpIdle) \/ (SimIdle /\ CmpInit)

Depot ==
    /\ pc = "depot"
    /\ SetLocals(DepotInitial(Locals, args))
    /\ mois' = 1
    /\ pc' = "boucle"
    /\ UNCHANGED <<args, nb_mois, r_m, frais_mensuel, ret, cmpVars>>

Mois ==
    /\ pc = "boucle"
    /\ mois <= nb_mois
    /\ SetLocals(MoisStep(Locals, args, mois))
    /\ mois' = mois + 1
    /\ UNCHANGED <<args, nb_mois, r_m, frais_mensuel, pc, ret, cmpVars>>

Fin ==
    /\ pc = "boucle"
    /\ mois > nb_mois
    /\ ret' = Retour(Locals, args)
    /\ pc' = "done"
    /\ UNCHANGED <<args, nb_mois, r_m, frais_mensuel, capital, net_investi,
                   mois_plafond, leftover, historique, investi_hist, mois,
                   cmpVars>>

\* if len(rates) != 3: return the error message and []
CalculErreur ==
    /\ cmp_pc = "arite"
    /\ Len(cmp_args.rates) # 3
    /\ rapport' = RapportErreur
    /\ scenarios_data' = <<>>
    /\ cmp_pc' = "done"
    /\ UNCHANGED <<cmp_args, appels, simVars>>

CalculDebut ==
    /\ cmp_pc = "arite"
    /\ Len(cmp_args.rates) = 3
    /\ scenarios_data' = <<>>
    /\ cmp_pc' = "scenarios"
    /\ UNCHANGED <<cmp_args, rapport, appels, simVars>>

\* one iteration of: for taux in rates
CalculScenario ==
    /\ cmp_pc = "scenarios"
    /\ Len(scenarios_data) < Len(cmp_args.rates)
    /\ scenarios_data' =
          Append(scenarios_data,
                 Scenario(cmp_args,
                          ProchainTaux(cmp_args.rates,
                                       Len(scenarios_data) + 1)))
    /\ appels' = appels + 1
    /\ UNCHANGED <<cmp_args, cmp_pc, rapport, simVars>>

CalculRapport ==
    /\ cmp_pc = "scenarios"
    /\ Len(scenarios_data) = Len(cmp_args.rates)
    /\ rapport' = Rapport(cmp_args, scenarios_data)
    /\ cmp_pc' = "done"
    /\ UNCHANGED <<cmp_args, scenarios_data, appels, simVars>>

Next ==
    \/ Depot
    \/ Mois
    \/ Fin
    \/ CalculErreur
    \/ CalculDebut
    \/ CalculScenario
    \/ CalculRapport

Spec == Init /\ [][Next]_vars

----------------------------------------------------------------------------
(* Properties *)

Running == pc \in {"boucle", "done"}

\* the parameters the data model allows: a positive duration, and an
\* initial capital, a monthly contribution and a cap that are not negative
Valides ==
    /\ args.duree_annees.s > 0
    /\ args.capital_initial.s >= 0
    /\ args.versement_mensuel.s >= 0
    /\ args.plafond_pea.s >= 0

\* floor(duree_annees * 12)
FloorMois == Floor(DMul(args.duree_annees, FromInt(12)))

\* the cap is reached, within the tolerance, by cumulative contributions n
Atteint(n) == LeWithinEps(args.plafond_pea, n)

\* C1 as stated, on the parameters the data model allows: net_investi <=
\* plafond_pea + 1e-9 after the initial deposit, after every monthly step and
\* in the returned result.
C1_CapInvariant ==
    (Running /\ Valides) =>
        /\ LeWithinEps(net_investi, args.plafond_pea)
        /\ pc = "done" => LeWithinEps(ret.result.net_investi, args.plafond_pea)

\* C2 as stated, on the parameters the data model allows: whenever capital_initial >= plafond_pea (plafond_pea = 0 included),
\* mois_plafond is 0 after the initial deposit and in the returned result.
C2_CapDetectionBoundary ==
    (/\ Running
     /\ Valides
     /\ DLe(args.plafond_pea, args.capital_initial)) =>
        /\ mois_plafond = Some(0)
        /\ pc = "done" => ret.result.mois_plafond = Some(0)

\* C3 as stated, on the parameters the data model allows:
\* mois_plafond = m means the contributions reach the cap (within 1e-9)
\* after step m and are below it after every earlier step; mois_plafond =
\* None means they are strictly below the cap after every step.
C3_FirstMonthAtCap ==
    (pc = "done" /\ Valides) =>
        LET mp == ret.result.mois_plafond
        IN  /\ mp # None =>
                 /\ mp[1] + 1 \in 1..Len(investi_hist)
                 /\ Atteint(investi_hist[mp[1] + 1])
                 /\ LeWithinEps(investi_hist[mp[1] + 1], args.plafond_pea)
                 /\ \A k \in 1..mp[1] : ~Atteint(investi_hist[k])
            /\ mp = None =>
                 \A k \in 1..Len(investi_hist) :
                    DLt(investi_hist[k], args.plafond_pea)

\* C4: for duree_annees >= 0 the history has floor(duree_annees * 12) + 1
\* entries, one appended per month index in order; with duree_annees = 0 it
\* is the single entry holding the capital right after the initial deposit.
C4_HistoryLength ==
    (Running /\ DLe(Zero, args.duree_annees)) =>
        /\ Len(historique) = mois
        /\ mois <= FloorMois + 1
        /\ historique[mois] = capital
        /\ pc = "done" =>
              /\ Len(ret.result.historique) = FloorMois + 1
              /\ ret.result.historique = historique
        /\ (pc = "done" /\ args.duree_annees = Zero) =>
              ret.result.historique = <<investi_hist[1]>>

\* a duration that is not a whole number of months, run to the end
C4_Witness ==
    /\ pc = "done"
    /\ args.duree_annees = Dec(3, <<8>>)
    /\ Len(ret.result.historique) = 5
    /\ historique[5] # historique[4]

\* C6 as stated: for every tax rate, the returned capital_final_brut is at
\* most the last history entry.
C6_NetAtMostGrossAllRates ==
    pc = "done" => DLe(ret.result.capital_final_brut, Last(historique))

\* C6 amended: for every tax rate >= 0, the returned capital_final_brut is
\* at most the last history entry.
C6_NetAtMostGross ==
    (pc = "done" /\ args.taux_impot_percent.s >= 0) =>
        DLe(ret.result.capital_final_brut, Last(ret.result.historique))

\* gains are taxed at a positive rate
C6_Witness ==
    /\ pc = "done"
    /\ args.taux_impot_percent.s > 0
    /\ DLt(net_investi, capital)
    /\ DLt(ret.result.capital_final_brut, Last(ret.result.historique))

\* the scenario records calcul_scenarios has built so far, with the
\* simulation each one reports
Simule(i) == simulate_pea(SimArgs(cmp_args, cmp_args.rates[i]))

\* C7: the gross gains are max(capital - net_investi, 0), never negative, in
\* simulate_pea and in calcul_scenarios; when the final capital is below
\* net_investi the tax is 0 and the net capital is the last history entry.
C7_NonNegativeTaxBasis ==
    /\ pc = "done" =>
          /\ ret.interets_bruts.s >= 0
          /\ DLe(DSub(capital, net_investi), ret.interets_bruts)
          /\ ret.interets_bruts.s > 0 =>
                ret.interets_bruts = DSub(capital, net_investi)
          /\ DLt(capital, net_investi) =>
                /\ ret.impots = Zero
                /\ ret.result.capital_final_brut = Last(ret.result.historique)
    /\ \A i \in 1..Len(scenarios_data) :
          LET d == scenarios_data[i]
              r == Simule(i)
              brut == Last(r.historique)
              investi == r.net_investi
          IN  /\ d.interets_bruts.signe = ""
              /\ d.interets_bruts.cents >= 0
              /\ DLe(investi, brut) =>
                    d.interets_bruts = Fmt2(DSub(brut, investi))
              /\ DLt(brut, investi) =>
                    /\ d.interets_bruts.cents = 0
                    /\ d.impots.cents = 0
                    /\ d.capital_final_net = d.capital_final_brut

\* a simulation, and a scenario of a comparison, that end below the money
\* put in under a nonzero tax rate
C7_Witness ==
    /\ pc = "done"
    /\ DLt(capital, net_investi)
    /\ args.taux_impot_percent.s # 0
    /\ capital.s > 0

C7_WitnessScenario ==
    /\ cmp_pc = "done"
    /\ Len(scenarios_data) = 3
    /\ cmp_args.taux_impot.s # 0
    /\ DLt(Last(Simule(3).historique), Simule(3).net_investi)
    /\ scenarios_data[3].capital_final_brut.cents > 0
    /\ scenarios_data[1].impots.cents > 0

\* C8: once leftover <= 1e-9, a monthly step makes no deposit: net_investi,
\* leftover and mois_plafond keep their values and capital changes by
\* exactly the growth and fee factors; a set mois_plafond is never changed.
C8_NoDepositAfterCap ==
    [][/\ (pc = "boucle" /\ pc' = "boucle" /\ LeEps(leftover)) =>
             /\ net_investi' = net_investi
             /\ leftover' = leftover
             /\ mois_plafond' = mois_plafond
             /\ capital' =
                   DMul(DMul(capital, DAdd(One, r_m)),
                        IF frais_mensuel.s > 0 THEN DSub(One, frais_mensuel)
                                               ELSE One)
             /\ historique' = Append(historique, capital')
       /\ mois_plafond # None => mois_plafond' = mois_plafond]_vars

\* the initial deposit exhausted the cap, and two later months compounded
\* without any contribution although one is asked for every month
C8_Witness ==
    /\ pc = "boucle"
    /\ mois >= 3
    /\ mois_plafond = Some(0)
    /\ DLt(args.plafond_pea, args.capital_initial)
    /\ args.versement_mensuel.s # 0
    /\ historique[3] # historique[1]
    /\ net_investi = args.plafond_pea

\* the deposit the code makes in a monthly step
DepotDuMois ==
    IF ~LeEps(leftover)
    THEN (IF DLt(args.versement_mensuel, leftover)
          THEN args.versement_mensuel ELSE leftover)
    ELSE Zero

\* C9: in every monthly step m, history[m] = history[m-1] * (1 + r_m)
\* * (1 - f_m if f_m > 0 else 1) + deposit_m: growth, then the fee, then the
\* deposit, which earns no growth and bears no fee in its month.
C9_MonthlyStepOrder ==
    [][(pc = "boucle" /\ pc' = "boucle") =>
          /\ Len(historique') = mois + 1
          /\ r_m = DDiv(DDiv(DSub(args.taux_annuel_percent,
                                   args.inflation_percent), 100), 12)
          /\ frais_mensuel = DDiv(DDiv(args.frais_annuels_percent, 100), 12)
          /\ historique'[mois + 1] =
                DAdd(DMul(DMul(historique[mois], DAdd(One, r_m)),
                          IF frais_mensuel.s > 0
                          THEN DSub(One, frais_mensuel) ELSE One),
                     DepotDuMois)]_vars

\* a month in which growth, a fee and a deposit all applied to a nonzero
\* capital
C9_Witness ==
    /\ pc = "boucle"
    /\ mois >= 3
    /\ r_m.s # 0
    /\ frais_mensuel.s > 0
    /\ historique[mois - 1].s # 0
    /\ investi_hist[mois] # investi_hist[mois - 1]
    /\ investi_hist[mois].s > 0

\* C10 as stated: leftover + net_investi == plafond_pea at every point of a
\* run, for every input; the initial deposit puts the same amount into
\* capital.
C10_ConservationAllInputs ==
    pc # "idle" =>
        /\ DAdd(leftover, net_investi) = args.plafond_pea
        /\ Running => historique[1] = investi_hist[1]
        /\ pc = "done" =>
              DAdd(leftover, ret.result.net_investi) = args.plafond_pea

\* the amounts of the call that are not zero
MontantsNonNuls ==
    {a \in {args.capital_initial, args.versement_mensuel, args.plafond_pea} :
        a.s # 0}

\* the three amounts are whole multiples of one power of two 2^k and below
\* 2^(k + 40) in magnitude, and the run has fewer than 2^12 months: no sum
\* or difference of contributions needs rounding
Exactes ==
    /\ \A a, b \in MontantsNonNuls : Top(a) <= b.e + 40
    /\ NbMois(args) < 4096

\* C10 amended: when the initial capital, the monthly contribution and the
\* cap are whole multiples of one power of two 2^k, each below 2^(k + 40) in
\* magnitude, and the run has fewer than 2^12 months, leftover + net_investi
\* = plafond_pea exactly at every point of the run (a zero or negative cap
\* and a negative contribution included); the initial deposit puts the same
\* amount into capital.
C10_Conservation ==
    (pc # "idle" /\ Exactes) =>
        /\ LET x == SommeExacte(leftover, net_investi)
           IN  Canon(x.s, x.m, x.e) = args.plafond_pea
        /\ Running => historique[1] = investi_hist[1]
        /\ pc = "done" =>
              DAdd(leftover, ret.result.net_investi) = args.plafond_pea

\* a run with a negative contribution that moved money back out
C10_Witness ==
    /\ pc = "done"
    /\ Exactes
    /\ args.versement_mensuel.s < 0
    /\ Len(investi_hist) >= 3
    /\ DLt(investi_hist[3], investi_hist[2])
    /\ DLt(args.plafond_pea, leftover)

\* C5: a rate list whose length is not 3 yields the error message, an empty
\* scenario list and no simulation; a list of 3 yields 3 records, record i
\* built from rates[i] and the shared parameters alone, in the given order.
C5_ComparatorArity ==
    /\ (cmp_pc = "done" /\ Len(cmp_args.rates) # 3) =>
          /\ rapport = RapportErreur
          /\ scenarios_data = <<>>
          /\ appels = 0
    /\ (cmp_pc = "done" /\ Len(cmp_args.rates) = 3) =>
          /\ Len(scenarios_data) = 3
          /\ appels = 3
          /\ rapport.titre # ErreurTaux
          /\ \A i \in 1..3 :
                LET r == Simule(i)
                IN  /\ scenarios_data[i].taux_str
                          = ToString(cmp_args.rates[i]) \o "%"
                    /\ scenarios_data[i].historique = r.historique
                    /\ scenarios_data[i].capital_final_net
                          = Fmt2(r.capital_final_brut)
                    /\ rapport.entete[i] = scenarios_data[i].taux_str
          /\ \A i, j \in 1..3 :
                cmp_args.rates[i] = cmp_args.rates[j] =>
                   scenarios_data[i] = scenarios_data[j]

\* three different rates, given in an order that is not sorted, gave three
\* different results
C5_Witness ==
    /\ cmp_pc = "done"
    /\ Len(cmp_args.rates) = 3
    /\ cmp_args.rates[1] > cmp_args.rates[2]
    /\ cmp_args.rates[3] > cmp_args.rates[1]
    /\ scenarios_data[1].capital_final_net # scenarios_data[2].capital_final_net
    /\ scenarios_data[1].capital_final_net # scenarios_data[3].capital_final_net

\* a list of 4 rates was refused
C5_WitnessErreur ==
    cmp_pc = "done" /\ Len(cmp_args.rates) = 4 /\ rapport.titre = ErreurTaux

====
